---- MODULE Spec2Model ----
(***************************************************************************)
(* Model of the formdata middleware (formdata.go): construction (New), the *)
(* Content-Type dispatch (ServeHTTP), the URL-encoded handler, the         *)
(* multipart handler with its file rebuild, and the downstream hand-over.  *)
(*                                                                         *)
(* Strings are sequences of byte codes (97 = "a"), so that escaping,       *)
(* parsing and lexical order are computed, not assumed.                    *)
(***************************************************************************)
EXTENDS Integers, Sequences, FiniteSets, TLC

\* ------------------------------------------------------------------ bounds
\* Longest field list of an incoming form body.
MaxPairs == 2
\* Longest text-field list of an incoming multipart body.
MaxFields == 2
\* Most file parts of an incoming multipart body.
MaxFiles == 2
\* Most Read calls made on the forwarded request's readers.
MaxReads == 3
\* Most GetBody calls made on the forwarded request.
MaxReplays == 2

\* ------------------------------------------------------------ byte strings
\* The string "a", "b", "ab" used as form keys.
KeyA == <<97>>
KeyB == <<98>>
KeyAB == <<97, 98>>

\* strings.Compare on byte strings: s sorts strictly before t.
RECURSIVE StrLess(_, _)
StrLess(s, t) ==
    IF t = <<>> THEN FALSE
    ELSE IF s = <<>> THEN TRUE
    ELSE IF s[1] < t[1] THEN TRUE
    ELSE IF s[1] > t[1] THEN FALSE
    ELSE StrLess(Tail(s), Tail(t))

\* The keys of a map as Go's range may visit them: any order, each key once.
RangeOrders(S) ==
    { o \in [1..Cardinality(S) -> S] : \A i, j \in 1..Cardinality(S) : i # j => o[i] # o[j] }

\* Go map helpers on map[string][]string.
EmptyValues == [k \in {} |-> <<>>]

MapDelete(m, k) == [x \in (DOMAIN m) \ {k} |-> m[x]]

MapStore(m, k, v) == [x \in (DOMAIN m) \cup {k} |-> IF x = k THEN v ELSE m[x]]

MapLoad(m, k) == IF k \in DOMAIN m THEN m[k] ELSE <<>>

\* ------------------------------------------------------------- net/url
\* url.shouldEscape in query-component mode: unreserved bytes stay.
shouldEscape(c) ==
    ~ (c \in 48..57 \/ c \in 65..90 \/ c \in 97..122 \/ c \in {45, 95, 46, 126})

\* "0123456789ABCDEF"[n]
upperhex(n) == IF n < 10 THEN 48 + n ELSE 55 + n

ishex(c) == c \in 48..57 \/ c \in 97..102 \/ c \in 65..70

unhex(c) ==
    IF c \in 48..57 THEN c - 48
    ELSE IF c \in 97..102 THEN c - 97 + 10
    ELSE IF c \in 65..70 THEN c - 65 + 10
    ELSE 0

\* url.QueryEscape
RECURSIVE QueryEscape(_)
QueryEscape(s) ==
    IF s = <<>> THEN <<>>
    ELSE LET c == s[1]
             e == IF c = 32 THEN <<43>>
                  ELSE IF shouldEscape(c) THEN <<37, upperhex(c \div 16), upperhex(c % 16)>>
                  ELSE <<c>>
         IN  e \o QueryEscape(Tail(s))

\* url.QueryUnescape: [err, val]; a "%" not followed by two hex digits is an
\* error, "+" decodes to a space.
RECURSIVE QueryUnescape(_)
QueryUnescape(s) ==
    IF s = <<>> THEN [err |-> FALSE, val |-> <<>>]
    ELSE IF s[1] = 37 THEN
        IF Len(s) < 3 \/ ~ ishex(s[2]) \/ ~ ishex(s[3])
        THEN [err |-> TRUE, val |-> <<>>]
        ELSE LET r == QueryUnescape(SubSeq(s, 4, Len(s)))
             IN  IF r.err THEN r
                 ELSE [err |-> FALSE, val |-> <<unhex(s[2]) * 16 + unhex(s[3])>> \o r.val]
    ELSE LET r == QueryUnescape(Tail(s))
         IN  IF r.err THEN r
             ELSE [err |-> FALSE, val |-> <<(IF s[1] = 43 THEN 32 ELSE s[1])>> \o r.val]

\* strings.Index for a single byte: 0 when absent.
IndexByte(s, c) ==
    IF \E i \in 1..Len(s) : s[i] = c
    THEN CHOOSE i \in 1..Len(s) : s[i] = c /\ \A j \in 1..(i - 1) : s[j] # c
    ELSE 0

\* strings.Cut(s, sep): the text before and after the first sep.
CutBefore(s, c) == IF IndexByte(s, c) = 0 THEN s ELSE SubSeq(s, 1, IndexByte(s, c) - 1)

CutAfter(s, c) == IF IndexByte(s, c) = 0 THEN <<>> ELSE SubSeq(s, IndexByte(s, c) + 1, Len(s))

\* url.ParseQuery: [err, vals]. A pair that fails to unescape is skipped and
\* the first error is kept; the pairs that decode are still stored.
RECURSIVE parseQuery(_, _, _)
parseQuery(m, err, query) ==
    IF query = <<>> THEN [err |-> err, vals |-> m]
    ELSE LET pair  == CutBefore(query, 38)
             rest  == CutAfter(query, 38)
             key   == QueryUnescape(CutBefore(pair, 61))
             value == QueryUnescape(CutAfter(pair, 61))
         IN  IF pair = <<>> THEN parseQuery(m, err, rest)
             ELSE IF key.err \/ value.err THEN parseQuery(m, TRUE, rest)
             ELSE parseQuery(MapStore(m, key.val, Append(MapLoad(m, key.val), value.val)),
                             err, rest)

ParseQuery(query) == parseQuery(EmptyValues, FALSE, query)

\* slices.Sort of the keys of a map: ascending byte order.
RECURSIVE SortedKeys(_)
SortedKeys(S) ==
    IF S = {} THEN <<>>
    ELSE LET least == CHOOSE k \in S : \A x \in S \ {k} : StrLess(k, x)
         IN  <<least>> \o SortedKeys(S \ {least})

\* key=value&key=value for one key's values, in their order.
RECURSIVE EncodeKey(_, _)
EncodeKey(k, vs) ==
    IF vs = <<>> THEN <<>>
    ELSE LET one == QueryEscape(k) \o <<61>> \o QueryEscape(vs[1])
         IN  IF Len(vs) = 1 THEN one ELSE one \o <<38>> \o EncodeKey(k, Tail(vs))

RECURSIVE EncodeKeys(_, _)
EncodeKeys(v, keys) ==
    IF keys = <<>> THEN <<>>
    ELSE LET head == EncodeKey(keys[1], v[keys[1]])
             tail == EncodeKeys(v, Tail(keys))
         IN  IF head = <<>> THEN tail
             ELSE IF tail = <<>> THEN head
             ELSE head \o <<38>> \o tail

\* The keys of a map in descending byte order.
RECURSIVE SortedKeysDescending(_)
SortedKeysDescending(S) ==
    IF S = {} THEN <<>>
    ELSE LET most == CHOOSE k \in S : \A x \in S \ {k} : StrLess(x, k)
         IN  <<most>> \o SortedKeysDescending(S \ {most})

\* An Encode that emits the keys in descending order.
EncodeOrderDescending(v) == SortedKeysDescending(DOMAIN v)

\* The order in which url.Values.Encode emits the keys.
EncodeOrder(v) == SortedKeys(DOMAIN v)

\* url.Values.Encode, as called by handleURLEncoded.
Encode(v) == EncodeKeys(v, EncodeOrder(v))


\* ------------------------------------------------------- mime/multipart
\* A multipart body is a sequence of tokens: a boundary delimiter line, a
\* part header (a form field's name, or a file's field name and filename),
\* one token per content byte, and the closing delimiter.
Token(t, a, b) == [t |-> t, a |-> a, b |-> b]

RECURSIVE ByteTokens(_)
ByteTokens(s) ==
    IF s = <<>> THEN <<>> ELSE <<Token("byte", <<s[1]>>, <<>>)>> \o ByteTokens(Tail(s))

\* What Writer.CreateFormField(name) writes.
FieldHeader(boundary, name) == <<Token("delim", boundary, <<>>), Token("field", name, <<>>)>>

\* What Writer.CreateFormFile(field, filename) writes.
FileHeaderTokens(boundary, field, filename) ==
    <<Token("delim", boundary, <<>>), Token("file", field, filename)>>

\* What Writer.Close writes.
CloseTokens(boundary) == <<Token("close", boundary, <<>>)>>

\* The index after the run of content bytes that starts at i.
RECURSIVE ContentEnd(_, _)
ContentEnd(toks, i) ==
    IF i <= Len(toks) /\ toks[i].t = "byte" THEN ContentEnd(toks, i + 1) ELSE i

RECURSIVE ContentBytes(_, _, _)
ContentBytes(toks, i, j) ==
    IF i >= j THEN <<>> ELSE <<toks[i].a[1]>> \o ContentBytes(toks, i + 1, j)

\* multipart.Reader.ReadForm from token i on: [err, msg, Value, File, pos].
\* A part with a filename is a file, any other part a value; a body that ends
\* before its closing delimiter, or holds anything but parts, is an error.
RECURSIVE readForm(_, _, _, _, _)
readForm(toks, i, boundary, value, file) ==
    IF i > Len(toks)
    THEN [err |-> TRUE, msg |-> "multipart: NextPart: EOF", Value |-> value, File |-> file,
          pos |-> Len(toks)]
    ELSE IF toks[i].t = "close" /\ toks[i].a = boundary
    THEN [err |-> FALSE, msg |-> "", Value |-> value, File |-> file, pos |-> i]
    ELSE IF toks[i].t = "delim" /\ toks[i].a = boundary /\ i < Len(toks)
            /\ toks[i + 1].t \in {"field", "file"}
    THEN LET hdr == toks[i + 1]
             j   == ContentEnd(toks, i + 2)
             c   == ContentBytes(toks, i + 2, j)
         IN  IF hdr.t = "field"
             THEN readForm(toks, j, boundary,
                           MapStore(value, hdr.a, Append(MapLoad(value, hdr.a), c)), file)
             ELSE readForm(toks, j, boundary, value,
                           MapStore(file, hdr.a,
                                    Append(MapLoad(file, hdr.a),
                                           [Filename |-> hdr.b, content |-> c])))
    ELSE [err |-> TRUE, msg |-> "multipart: NextPart: malformed", Value |-> value,
          File |-> file, pos |-> i]

ReadForm(toks, boundary) == readForm(toks, 1, boundary, EmptyValues, EmptyValues)

\* ----------------------------------------------------------- bytes.Buffer
\* A Buffer is the slice arr[1..len] of its array with a read offset.
NewBuffer == [arr |-> <<>>, len |-> 0, off |-> 0]

\* Buffer.Write: the bytes land in the array right after the slice's end.
BufWrite(b, p) ==
    [arr |-> SubSeq(b.arr, 1, b.len) \o p, len |-> b.len + Len(p), off |-> b.off]

\* Buffer.Len: the unread part.
BufLen(b) == b.len - b.off

\* Buffer.Read of at most n bytes: [buf, data, eof]. A drained buffer is Reset
\* (its slice truncated to the array's start; the array keeps its bytes).
BufRead(b, n) ==
    IF b.off >= b.len
    THEN [buf |-> [arr |-> b.arr, len |-> 0, off |-> 0], data |-> <<>>, eof |-> TRUE]
    ELSE LET k == IF n < b.len - b.off THEN n ELSE b.len - b.off
         IN  [buf |-> [b EXCEPT !.off = b.off + k],
              data |-> SubSeq(b.arr, b.off + 1, b.off + k), eof |-> FALSE]

\* ------------------------------------------------------------------ state
VARIABLES
    pc,        \* where the program is: "start", "failed", "ready", the writeFiles
               \* steps "open" / "create" / "copy", "finish", "next", "done"
    config,    \* the *Config handed to New
    sinkFails, \* whether a write of the multipart.Writer may return an error
    handler,   \* the *Formdata New returned: [ok, set, appendTo, delete]
    arrived,   \* the request as it arrived: [ct, wire], its header and body bytes
    req,       \* the *http.Request: [ct, Body, ContentLength, GetBody, PostForm, MultipartForm]
    rw,        \* what the filter itself wrote to the ResponseWriter: <<[code, msg]>>
    nextCalls, \* how many times a.next.ServeHTTP was called
    encoded,   \* handleURLEncoded's local `encoded`, captured by the GetBody closure
    body,      \* handleMultipart's local bytes.Buffer `body`: [arr, len, off]
    snapshot,  \* handleMultipart's local `snapshot`: a slice [lo, hi) of body's array
    writer,    \* the multipart.Writer: [boundary, parts]
    fileOrder, \* writeFiles: the file headers in the order the two loops visit them
    fi,        \* writeFiles: index in fileOrder of the file being written
    handles,   \* the multipart.File handles opened and not yet closed
    mutated,   \* whether the mutation pass ran on the request's form
    readers,   \* downstream: the readers GetBody returned: <<[pos, got, eof]>>
    bodyGot,   \* downstream: [got, eof], the bytes read from req.Body so far
    reads      \* downstream: Read calls made so far

vars == <<pc, config, sinkFails, handler, arrived, req, rw, nextCalls, encoded, body, snapshot,
          writer, fileOrder, fi, handles, mutated, readers, bodyGot, reads>>

\* The bytes of the body the request arrived with.
wire == arrived.wire

\* ---------------------------------------------------------------- headers
\* A Content-Type header value is media ++ params ++ boundary; the media
\* types used are no prefix of one another, so strings.HasPrefix(ct, p) is
\* media = p.
ContentType(media, params, boundary) ==
    [media |-> media, params |-> params, boundary |-> boundary]

\* A prefix test that an absent header passes.
HasPrefixOrEmpty(ct, prefix) == ct.media = prefix \/ ct.media = ""

HasPrefix(ct, prefix) == ct.media = prefix

NoContentType == ContentType("", "", <<>>)

\* ----------------------------------------------------------------- inputs
\* Values a configuration sets ("y ") and appends ("w").
SetValue == <<121, 32>>
AppendValue == <<119>>

\* The keys a configuration names.
OpKeys == {KeyA, KeyB}

ConfigMaps(v) == UNION { [S -> {v}] : S \in SUBSET OpKeys }

DeleteLists ==
    { <<>>, <<KeyA>>, <<KeyB>>, <<KeyA, KeyB>>, <<KeyB, KeyA>>, <<KeyA, KeyA>> }

Configs ==
    [Set : ConfigMaps(SetValue), Append : ConfigMaps(AppendValue), Delete : DeleteLists]

\* The configurations tried on multipart requests.
MultipartConfigs == { c \in Configs : c.Delete \in { <<>>, <<KeyA>> } }

\* Sequences over S of length at most n.
SeqsUpTo(S, n) == UNION { [1..k -> S] : k \in 0..n }

\* The fields a form body may carry: a=1, a=&, b=1, ab=2.
WirePairs == { <<KeyA, <<49>>>>, <<KeyA, <<38>>>>, <<KeyB, <<49>>>>, <<KeyAB, <<50>>>> }

\* A client's URL-encoding of a field list, in the list's order.
RECURSIVE WireQuery(_)
WireQuery(pairs) ==
    IF pairs = <<>> THEN <<>>
    ELSE LET one == QueryEscape(pairs[1][1]) \o <<61>> \o QueryEscape(pairs[1][2])
         IN  IF Len(pairs) = 1 THEN one ELSE one \o <<38>> \o WireQuery(Tail(pairs))

\* "a=%": a pair with a truncated percent escape.
BadPair == <<97, 61, 37>>

URLEncodedMedia == "application/x-www-form-urlencoded"
MultipartMedia == "multipart/form-data"

URLEncodedRequests ==
    { [ct |-> ContentType(URLEncodedMedia, "", <<>>), wire |-> WireQuery(p)] :
        p \in SeqsUpTo(WirePairs, MaxPairs) }
    \cup
    { [ct |-> ContentType(URLEncodedMedia, "; charset=UTF-8", <<>>), wire |-> w] :
        w \in { WireQuery(p) : p \in SeqsUpTo(WirePairs, 1) }
              \cup { WireQuery(p) \o <<38>> \o BadPair : p \in SeqsUpTo(WirePairs, 1) }
              \cup { BadPair } }

OtherRequests ==
    { [ct |-> c, wire |-> w] :
        c \in { NoContentType, ContentType("application/json", "", <<>>),
                ContentType("text/plain", "; charset=UTF-8", <<>>) },
        w \in { <<>>, WireQuery(<<<<KeyA, <<49>>>>>>) } }

\* The boundary of an incoming multipart body ("B0") and the boundary a new
\* multipart.Writer draws ("B1").
WireBoundary == <<66, 48>>

NewBoundaries == { <<66, 49>> }

\* A part of an incoming multipart body: a text field has no filename.
Part(name, filename, content) == [name |-> name, filename |-> filename, content |-> content]

\* The text fields a multipart body may carry: a=1, a=&, ab=2.
WireFields == { Part(KeyA, <<>>, <<49>>), Part(KeyA, <<>>, <<38>>), Part(KeyAB, <<>>, <<50>>) }

\* The file parts a multipart body may carry: field "a" (also a form key)
\* with files n:"x" and m:"xy", field "f" with the empty file n.
WireFiles ==
    { Part(KeyA, <<110>>, <<120>>), Part(KeyA, <<109>>, <<120, 121>>),
      Part(<<102>>, <<110>>, <<>>) }

RECURSIVE PartTokens(_, _)
PartTokens(boundary, parts) ==
    IF parts = <<>> THEN <<>>
    ELSE LET q == parts[1]
             h == IF q.filename = <<>> THEN FieldHeader(boundary, q.name)
                  ELSE FileHeaderTokens(boundary, q.name, q.filename)
         IN  h \o ByteTokens(q.content) \o PartTokens(boundary, Tail(parts))

\* A client's multipart encoding of a list of parts.
WireMultipart(boundary, parts) == PartTokens(boundary, parts) \o CloseTokens(boundary)

MultipartRequests(fieldLists, fileLists) ==
    { [ct |-> ContentType(MultipartMedia, "; boundary=", WireBoundary),
       wire |-> WireMultipart(WireBoundary, fields \o files)] :
        fields \in fieldLists, files \in fileLists }

\* Multipart requests that do not parse: no boundary parameter, and a body cut
\* off before its closing delimiter.
BadMultipartRequests ==
    { [ct |-> ContentType(MultipartMedia, "", <<>>),
       wire |-> WireMultipart(WireBoundary, <<Part(KeyA, <<>>, <<49>>)>>)],
      [ct |-> ContentType(MultipartMedia, "; boundary=", WireBoundary),
       wire |-> PartTokens(WireBoundary, <<Part(KeyA, <<>>, <<49>>)>>)] }

\* ------------------------------------------------------------------- New
\* A New that rejects a configuration as soon as one of the three is empty.
NewFailsAny(c) == Len(c.Delete) = 0 \/ DOMAIN c.Set = {} \/ DOMAIN c.Append = {}

\* New, lines 44-46: the configuration error.
NewFails(c) == Len(c.Delete) = 0 /\ DOMAIN c.Set = {} /\ DOMAIN c.Append = {}

NoHandler == [ok |-> FALSE, set |-> EmptyValues, appendTo |-> EmptyValues, delete |-> <<>>]

New ==
    /\ pc = "start"
    /\ IF NewFails(config)
       THEN /\ handler' = NoHandler
            /\ pc' = "failed"
       ELSE /\ handler' = [ok |-> TRUE, set |-> config.Set, appendTo |-> config.Append,
                           delete |-> config.Delete]
            /\ pc' = "ready"
    /\ UNCHANGED <<config, sinkFails, arrived, req, rw, nextCalls, encoded, body, snapshot, writer,
                   fileOrder, fi, handles, mutated, readers, bodyGot, reads>>

\* --------------------------------------------------------- url.Values ops
Del(v, key) == MapDelete(v, key)

Set(v, key, value) == MapStore(v, key, <<value>>)

Add(v, key, value) == MapStore(v, key, Append(MapLoad(v, key), value))

\* handleURLEncoded, lines 77-79.
RECURSIVE formDelete(_, _)
formDelete(form, del) ==
    IF del = <<>> THEN form ELSE formDelete(Del(form, del[1]), Tail(del))

\* handleURLEncoded, lines 80-82, visiting a.set in the order `order`.
RECURSIVE formSet(_, _, _)
formSet(form, set, order) ==
    IF order = <<>> THEN form
    ELSE formSet(Set(form, order[1], set[order[1]]), set, Tail(order))

\* handleURLEncoded, lines 83-85, visiting a.appendTo in the order `order`.
RECURSIVE formAdd(_, _, _)
formAdd(form, appendTo, order) ==
    IF order = <<>> THEN form
    ELSE formAdd(Add(form, order[1], appendTo[order[1]]), appendTo, Tail(order))

\* The loops run append, then set, then delete.
mutateFormReversed(form, a, setOrder, appendOrder) ==
    formDelete(formSet(formAdd(form, a.appendTo, appendOrder), a.set, setOrder), a.delete)

\* The three loops of handleURLEncoded, in the code's order.
mutateForm(form, a, setOrder, appendOrder) ==
    formAdd(formSet(formDelete(form, a.delete), a.set, setOrder), a.appendTo, appendOrder)

\* A ParseForm that reports no error.
ParseFormLenient(w) == [err |-> FALSE, msg |-> "", vals |-> ParseQuery(w).vals]

\* Request.ParseForm on a body-carrying request: the whole body is read, then
\* parsed; PostForm holds whatever pairs decoded.
ParseForm(w) ==
    LET p == ParseQuery(w)
    IN  [err |-> p.err, msg |-> "invalid URL escape", vals |-> p.vals]

httpError(code, msg) == Append(rw, [code |-> code, msg |-> msg])

\* ServeHTTP's first case with the whole of handleURLEncoded.
ServeHTTP_URLEncoded ==
    /\ pc = "ready"
    /\ HasPrefix(req.ct, URLEncodedMedia)
    /\ LET p == ParseForm(wire)
       IN  IF p.err
           THEN /\ rw' = httpError(400, p.msg)
                /\ req' = [req EXCEPT !.Body.pos = Len(wire), !.PostForm = p.vals]
                /\ UNCHANGED <<encoded, mutated>>
           ELSE \E setOrder \in RangeOrders(DOMAIN handler.set),
                   appendOrder \in RangeOrders(DOMAIN handler.appendTo) :
                    LET form == mutateForm(p.vals, handler, setOrder, appendOrder)
                    IN  /\ encoded' = Encode(form)
                        /\ req' = [req EXCEPT !.PostForm = form,
                                              !.Body = [src |-> "encoded", pos |-> 0],
                                              !.ContentLength = Len(Encode(form)),
                                              !.GetBody = "encoded"]
                        /\ mutated' = TRUE
                        /\ UNCHANGED rw
    /\ pc' = "next"
    /\ UNCHANGED <<config, sinkFails, handler, arrived, nextCalls, body, snapshot, writer, fileOrder,
                   fi, handles, readers, bodyGot, reads>>

\* ------------------------------------------------------- handleMultipart
\* Request.ParseMultipartForm: the boundary comes from the Content-Type header.
ParseMultipartForm(ct, toks) ==
    IF ct.params # "; boundary=" \/ ct.boundary = <<>>
    THEN [err |-> TRUE, msg |-> "no multipart boundary param in Content-Type",
          Value |-> EmptyValues, File |-> EmptyValues, pos |-> 0]
    ELSE ReadForm(toks, ct.boundary)

\* applyOpsToValues, lines 132-134.
RECURSIVE valuesDelete(_, _)
valuesDelete(values, del) ==
    IF del = <<>> THEN values ELSE valuesDelete(MapDelete(values, del[1]), Tail(del))

\* applyOpsToValues, lines 135-137, visiting a.set in the order `order`.
RECURSIVE valuesSet(_, _, _)
valuesSet(values, set, order) ==
    IF order = <<>> THEN values
    ELSE valuesSet(MapStore(values, order[1], <<set[order[1]]>>), set, Tail(order))

\* applyOpsToValues, lines 138-140, visiting a.appendTo in the order `order`.
RECURSIVE valuesAppend(_, _, _)
valuesAppend(values, appendTo, order) ==
    IF order = <<>> THEN values
    ELSE valuesAppend(MapStore(values, order[1],
                               Append(MapLoad(values, order[1]), appendTo[order[1]])),
                      appendTo, Tail(order))

\* An append loop that puts the new value in front of the key's values.
RECURSIVE valuesPrepend(_, _, _)
valuesPrepend(values, appendTo, order) ==
    IF order = <<>> THEN values
    ELSE valuesPrepend(MapStore(values, order[1],
                                <<appendTo[order[1]]>> \o MapLoad(values, order[1])),
                       appendTo, Tail(order))

\* applyOpsToValues with that append loop.
applyOpsPrepending(values, a, setOrder, appendOrder) ==
    valuesPrepend(valuesSet(valuesDelete(values, a.delete), a.set, setOrder),
                  a.appendTo, appendOrder)

applyOpsToValues(values, a, setOrder, appendOrder) ==
    valuesAppend(valuesSet(valuesDelete(values, a.delete), a.set, setOrder),
                 a.appendTo, appendOrder)

\* writeValues: the WriteField calls <<k, v>> of the two loops, the map visited
\* in the order `order`.
RECURSIVE FieldWrites(_, _)
FieldWrites(values, order) ==
    IF order = <<>> THEN <<>>
    ELSE [i \in 1..Len(values[order[1]]) |-> <<order[1], values[order[1]][i]>>]
         \o FieldWrites(values, Tail(order))

\* What a run of WriteField calls writes.
RECURSIVE FieldTokens(_, _)
FieldTokens(boundary, writes) ==
    IF writes = <<>> THEN <<>>
    ELSE FieldHeader(boundary, writes[1][1]) \o ByteTokens(writes[1][2])
         \o FieldTokens(boundary, Tail(writes))

\* writeFiles: the file headers as the two loops visit them, the map's fields
\* in the order `fields`, each field's files in their stored order.
RECURSIVE FilesInOrder(_, _)
FilesInOrder(files, fields) ==
    IF fields = <<>> THEN <<>>
    ELSE [i \in 1..Len(files[fields[1]]) |->
             [field |-> fields[1], Filename |-> files[fields[1]][i].Filename,
              content |-> files[fields[1]][i].content]]
         \o FilesInOrder(files, Tail(fields))

NoWriter == [boundary |-> <<>>, parts |-> 0]

\* handleMultipart returns early with an error response: its locals are gone.
ReturnError(code, msg) ==
    /\ rw' = httpError(code, msg)
    /\ body' = NewBuffer
    /\ writer' = NoWriter
    /\ fileOrder' = <<>>
    /\ fi' = 0
    /\ pc' = "next"

\* ServeHTTP's second case with handleMultipart up to the end of writeValues
\* (lines 95-113) and the choice of writeFiles' visiting order. A WriteField
\* call, when there is one, may fail.
ServeHTTP_Multipart ==
    /\ pc = "ready"
    /\ ~ HasPrefix(req.ct, URLEncodedMedia)
    /\ HasPrefix(req.ct, MultipartMedia)
    /\ LET p == ParseMultipartForm(req.ct, wire)
       IN  IF p.err
           THEN /\ ReturnError(400, p.msg)
                /\ req' = [req EXCEPT !.Body.pos = p.pos]
                /\ UNCHANGED mutated
           ELSE \E setOrder \in RangeOrders(DOMAIN handler.set),
                   appendOrder \in RangeOrders(DOMAIN handler.appendTo),
                   boundary \in NewBoundaries :
                LET values == applyOpsToValues(p.Value, handler, setOrder, appendOrder)
                IN  \E valueOrder \in RangeOrders(DOMAIN values),
                       fields \in RangeOrders(DOMAIN p.File) :
                    \E ok \in { TRUE }
                              \cup { FALSE : k \in (IF sinkFails THEN DOMAIN values ELSE {}) } :
                    /\ req' = [req EXCEPT !.Body.pos = p.pos,
                                          !.PostForm = p.Value,
                                          !.MultipartForm = [present |-> TRUE,
                                                             Value |-> values,
                                                             File |-> p.File]]
                    /\ mutated' = TRUE
                    /\ IF ~ ok
                       THEN ReturnError(500, "multipart: write field")
                       ELSE /\ body' = BufWrite(NewBuffer,
                                         FieldTokens(boundary, FieldWrites(values, valueOrder)))
                            /\ writer' = [boundary |-> boundary,
                                          parts |-> Len(FieldWrites(values, valueOrder))]
                            /\ fileOrder' = FilesInOrder(p.File, fields)
                            /\ fi' = 1
                            /\ pc' = IF FilesInOrder(p.File, fields) = <<>>
                                     THEN "finish" ELSE "open"
                            /\ UNCHANGED rw
    /\ UNCHANGED <<config, sinkFails, handler, arrived, nextCalls, encoded, snapshot, handles, readers,
                   bodyGot, reads>>

\* writeFiles, lines 159-162: fh.Open().
writeFiles_Open ==
    /\ pc = "open"
    /\ \E ok \in BOOLEAN :
        IF ok
        THEN /\ handles' = handles \cup {fi}
             /\ pc' = "create"
             /\ UNCHANGED <<rw, body, writer, fileOrder, fi>>
        ELSE /\ ReturnError(500, "open")
             /\ UNCHANGED handles
    /\ UNCHANGED <<config, sinkFails, handler, arrived, req, nextCalls, encoded, snapshot, mutated,
                   readers, bodyGot, reads>>

\* writeFiles, lines 163-167: w.CreateFormFile(field, fh.Filename).
writeFiles_CreateFormFile ==
    /\ pc = "create"
    /\ \E ok \in { TRUE } \cup { FALSE : k \in (IF sinkFails THEN {1} ELSE {}) } :
        IF ok
        THEN /\ body' = BufWrite(body, FileHeaderTokens(writer.boundary,
                                          fileOrder[fi].field, fileOrder[fi].Filename))
             /\ writer' = [writer EXCEPT !.parts = writer.parts + 1]
             /\ pc' = "copy"
             /\ UNCHANGED <<rw, fileOrder, fi, handles>>
        ELSE /\ handles' = handles \ {fi}
             /\ ReturnError(500, "multipart: create part")
    /\ UNCHANGED <<config, sinkFails, handler, arrived, req, nextCalls, encoded, snapshot, mutated,
                   readers, bodyGot, reads>>

\* A copy-error path that returns without closing the file.
LeakOnCopyError(open, f) == open

\* The handles left open when the copy of the file with handle f fails.
CloseOnCopyError(open, f) == open \ {f}

\* A copy that stops one byte short.
CopiedContentShort(content) == SubSeq(content, 1, Len(content) - 1)

\* What io.Copy(part, f) writes of a file's content when it succeeds.
CopiedContent(content) == content

\* writeFiles, lines 168-173: io.Copy(part, f), f.Close(), and the next file.
writeFiles_Copy ==
    /\ pc = "copy"
    /\ \E ok \in BOOLEAN :
        IF ok
        THEN /\ body' = BufWrite(body, ByteTokens(CopiedContent(fileOrder[fi].content)))
             /\ handles' = handles \ {fi}
             /\ IF fi < Len(fileOrder)
                THEN fi' = fi + 1 /\ pc' = "open"
                ELSE fi' = fi /\ pc' = "finish"
             /\ UNCHANGED <<rw, writer, fileOrder>>
        ELSE /\ handles' = CloseOnCopyError(handles, fi)
             /\ ReturnError(500, "copy")
    /\ UNCHANGED <<config, sinkFails, handler, arrived, req, nextCalls, encoded, snapshot, mutated,
                   readers, bodyGot, reads>>

\* body.Bytes(), line 126: the unread part of the buffer, as a slice of its array.
BufBytes(b) == [lo |-> b.off, hi |-> b.len]

\* The Content-Type header handleMultipart sets, line 125.
RebuiltContentType(w) == ContentType(MultipartMedia, "; boundary=", w.boundary)

\* handleMultipart, lines 118-127: writer.Close() and the replacement.
handleMultipart_Replace ==
    /\ pc = "finish"
    /\ \E ok \in { TRUE } \cup { FALSE : k \in (IF sinkFails THEN {1} ELSE {}) } :
        IF ok
        THEN LET b == BufWrite(body, CloseTokens(writer.boundary))
             IN  /\ body' = b
                 /\ req' = [req EXCEPT !.Body = [src |-> "body", pos |-> 0],
                                       !.ContentLength = BufLen(b),
                                       !.ct = RebuiltContentType(writer),
                                       !.GetBody = "snapshot"]
                 /\ snapshot' = BufBytes(b)
                 /\ pc' = "next"
                 /\ UNCHANGED <<rw, writer, fileOrder, fi>>
        ELSE /\ ReturnError(500, "multipart: close")
             /\ UNCHANGED <<req, snapshot>>
    /\ UNCHANGED <<config, sinkFails, handler, arrived, nextCalls, encoded, handles, mutated, readers,
                   bodyGot, reads>>

\* ServeHTTP with neither case taken.
ServeHTTP_Other ==
    /\ pc = "ready"
    /\ ~ HasPrefix(req.ct, URLEncodedMedia)
    /\ ~ HasPrefix(req.ct, MultipartMedia)
    /\ pc' = "next"
    /\ UNCHANGED <<config, sinkFails, handler, arrived, req, rw, nextCalls, encoded, body, snapshot,
                   writer, fileOrder, fi, handles, mutated, readers, bodyGot, reads>>

\* ServeHTTP, line 65: the downstream handler is called.
ServeHTTP_Next ==
    /\ pc = "next"
    /\ nextCalls' = nextCalls + 1
    /\ pc' = "done"
    /\ UNCHANGED <<config, sinkFails, handler, arrived, req, rw, encoded, body, snapshot, writer,
                   fileOrder, fi, handles, mutated, readers, bodyGot, reads>>

\* ------------------------------------------------- the downstream handler
\* The buffer sizes downstream reads with: a byte at a time, or a large buffer.
ReadSizes == { 1, 4096 }

\* strings.Reader.Read and bytes.Reader.Read at offset pos: [data, eof].
ReaderRead(data, pos, n) ==
    IF pos >= Len(data) THEN [data |-> <<>>, eof |-> TRUE]
    ELSE [data |-> SubSeq(data, pos + 1, IF pos + n < Len(data) THEN pos + n ELSE Len(data)),
          eof |-> FALSE]

\* A GetBody that reads the buffer's unread part at the time of the call.
ReplayBytesLive ==
    IF req.GetBody = "encoded" THEN encoded
    ELSE SubSeq(body.arr, body.off + 1, body.len)

\* The bytes a reader returned by req.GetBody reads: the captured string
\* (line 90), or the captured slice of the buffer's array (lines 126-127).
ReplayBytes ==
    IF req.GetBody = "encoded" THEN encoded
    ELSE SubSeq(body.arr, snapshot.lo + 1, snapshot.hi)

\* Downstream calls req.GetBody().
Downstream_GetBody ==
    /\ pc = "done"
    /\ req.GetBody # "nil"
    /\ Len(readers) < MaxReplays
    /\ readers' = Append(readers, [pos |-> 0, got |-> <<>>, eof |-> FALSE])
    /\ UNCHANGED <<pc, config, sinkFails, handler, arrived, req, rw, nextCalls, encoded, body,
                   snapshot, writer, fileOrder, fi, handles, mutated, bodyGot, reads>>

\* Downstream reads from a reader GetBody returned.
Downstream_ReadReplay ==
    /\ pc = "done"
    /\ reads < MaxReads
    /\ \E i \in 1..Len(readers), n \in ReadSizes :
        LET r == ReaderRead(ReplayBytes, readers[i].pos, n)
        IN  readers' = [readers EXCEPT ![i] = [pos |-> @.pos + Len(r.data),
                                               got |-> @.got \o r.data,
                                               eof |-> r.eof]]
    /\ reads' = reads + 1
    /\ UNCHANGED <<pc, config, sinkFails, handler, arrived, req, rw, nextCalls, encoded, body,
                   snapshot, writer, fileOrder, fi, handles, mutated, bodyGot>>

\* Downstream reads from req.Body: the rebuilt buffer (line 123), the encoded
\* string's reader (line 88), or the stream the request arrived with.
Downstream_ReadBody ==
    /\ pc = "done"
    /\ reads < MaxReads
    /\ \E n \in ReadSizes :
        IF req.Body.src = "body"
        THEN LET r == BufRead(body, n)
             IN  /\ body' = r.buf
                 /\ bodyGot' = [got |-> bodyGot.got \o r.data, eof |-> r.eof]
                 /\ UNCHANGED req
        ELSE LET r == ReaderRead(IF req.Body.src = "encoded" THEN encoded ELSE wire,
                                 req.Body.pos, n)
             IN  /\ req' = [req EXCEPT !.Body.pos = @ + Len(r.data)]
                 /\ bodyGot' = [got |-> bodyGot.got \o r.data, eof |-> r.eof]
                 /\ UNCHANGED body
    /\ reads' = reads + 1
    /\ UNCHANGED <<pc, config, sinkFails, handler, arrived, rw, nextCalls, encoded, snapshot, writer,
                   fileOrder, fi, handles, mutated, readers>>

\* ------------------------------------------------------------ the machine
NewRequest(r) ==
    [ct |-> r.ct, Body |-> [src |-> "wire", pos |-> 0], ContentLength |-> Len(r.wire),
     GetBody |-> "nil", PostForm |-> EmptyValues,
     MultipartForm |-> [present |-> FALSE, Value |-> EmptyValues, File |-> EmptyValues]]

InitWith(cfgs, requests, sinks) ==
    /\ pc = "start"
    /\ config \in cfgs
    /\ sinkFails \in sinks
    /\ handler = NoHandler
    /\ \E r \in requests : arrived = r /\ req = NewRequest(r)
    /\ rw = <<>>
    /\ nextCalls = 0
    /\ encoded = <<>>
    /\ body = NewBuffer
    /\ snapshot = [lo |-> 0, hi |-> 0]
    /\ writer = NoWriter
    /\ fileOrder = <<>>
    /\ fi = 0
    /\ handles = {}
    /\ mutated = FALSE
    /\ readers = <<>>
    /\ bodyGot = [got |-> <<>>, eof |-> FALSE]
    /\ reads = 0

\* Every configuration on every URL-encoded and unrecognized request, and the
\* multipart configurations on multipart requests with at most one file.
Init ==
    \/ InitWith(Configs, URLEncodedRequests \cup OtherRequests, {FALSE})
    \/ InitWith(MultipartConfigs,
                BadMultipartRequests
                \cup MultipartRequests(SeqsUpTo(WireFields, MaxFields),
                                       { <<>>, <<Part(KeyA, <<110>>, <<120>>)>> }),
                BOOLEAN)

Next ==
    \/ New
    \/ ServeHTTP_URLEncoded
    \/ ServeHTTP_Multipart
    \/ writeFiles_Open
    \/ writeFiles_CreateFormFile
    \/ writeFiles_Copy
    \/ handleMultipart_Replace
    \/ ServeHTTP_Other
    \/ ServeHTTP_Next

Spec == Init /\ [][Next]_vars

\* The configurations whose keys are at most the key "a", which is also the
\* field name of file parts.
FileConfigs ==
    { c \in MultipartConfigs : DOMAIN c.Set \subseteq {KeyA} /\ DOMAIN c.Append \subseteq {KeyA} }

\* Multipart requests with up to MaxFiles file parts, with one URL-encoded and
\* one unrecognized request beside them.
InitFilesWith(sinks) ==
    \/ InitWith(FileConfigs,
                { [ct |-> ContentType(URLEncodedMedia, "", <<>>),
                   wire |-> WireQuery(<<<<KeyA, <<49>>>>>>)],
                  [ct |-> NoContentType, wire |-> <<>>] },
                {FALSE})
    \/ InitWith(FileConfigs,
                BadMultipartRequests
                \cup MultipartRequests({ <<>>, <<Part(KeyA, <<>>, <<49>>)>> },
                                       SeqsUpTo(WireFiles, MaxFiles)),
                sinks)

InitFiles == InitFilesWith(BOOLEAN)

SpecFiles == InitFiles /\ [][Next]_vars

\* The same requests when the multipart.Writer writes to the bytes.Buffer of
\* handleMultipart, whose Write never returns an error.
InitInMemory == InitFilesWith({FALSE})

SpecInMemory == InitInMemory /\ [][Next]_vars

\* Two configurations on a few requests, for the downstream reads.
ReplayConfigs ==
    { c \in Configs : /\ c.Delete = <<KeyA>>
                      /\ DOMAIN c.Set = {KeyB}
                      /\ DOMAIN c.Append \in { {KeyA}, {KeyA, KeyB} } }

InitReplay ==
    \/ InitWith(ReplayConfigs,
                { [ct |-> ContentType(URLEncodedMedia, "", <<>>), wire |-> WireQuery(p)] :
                    p \in { <<>>, <<<<KeyA, <<49>>>>, <<KeyAB, <<50>>>>>> } }
                \cup { [ct |-> ContentType(URLEncodedMedia, "", <<>>), wire |-> BadPair],
                       [ct |-> ContentType("application/json", "", <<>>),
                        wire |-> <<123, 125>>] },
                {FALSE})
    \/ InitWith(ReplayConfigs,
                MultipartRequests({ <<Part(KeyAB, <<>>, <<50>>)>> },
                                  { <<>>, <<Part(KeyA, <<110>>, <<120>>)>> }),
                {FALSE})

NextReplay ==
    \/ Next
    \/ Downstream_GetBody
    \/ Downstream_ReadReplay
    \/ Downstream_ReadBody

SpecReplay == InitReplay /\ [][NextReplay]_vars

\* ------------------------------------------------------------ observations
\* What the claims below read off a state.

\* The bytes a reader of req.Body gets from now on.
ForwardedBody ==
    IF req.Body.src = "body" THEN SubSeq(body.arr, body.off + 1, body.len)
    ELSE IF req.Body.src = "encoded" THEN SubSeq(encoded, req.Body.pos + 1, Len(encoded))
    ELSE SubSeq(wire, req.Body.pos + 1, Len(wire))

ArrivedURLEncoded == arrived.ct.media = URLEncodedMedia

ArrivedMultipart == arrived.ct.media = MultipartMedia

\* ServeHTTP has returned from the handler it dispatched to.
Handled == pc \in {"next", "done"}

\* A handler ran to its end and replaced the body.
Transformed == Handled /\ req.GetBody # "nil"

\* The multi-map the request's body held when it arrived.
InputValues ==
    IF ArrivedURLEncoded THEN ParseQuery(wire).vals
    ELSE ReadForm(wire, arrived.ct.boundary).Value

\* The multi-map downstream decodes from the forwarded body.
DownstreamValues ==
    IF req.Body.src = "encoded" THEN ParseQuery(ForwardedBody).vals
    ELSE ReadForm(ForwardedBody, req.ct.boundary).Value

DeleteKeys == { handler.delete[i] : i \in DOMAIN handler.delete }

SetKeys == DOMAIN handler.set

AppendKeys == DOMAIN handler.appendTo

KeysInPlay == DOMAIN InputValues \cup DOMAIN DownstreamValues \cup OpKeys

\* The values the downstream sees for k, empty when it does not see k.
Out(k) == MapLoad(DownstreamValues, k)

\* ---------------------------------------------------------------- claims

\* C8: New fails, producing no filter, exactly when set, append and delete are
\* all empty; otherwise the filter holds exactly the supplied three.
C8_Construction ==
    pc # "start" =>
        IF DOMAIN config.Set = {} /\ DOMAIN config.Append = {} /\ config.Delete = <<>>
        THEN pc = "failed" /\ ~ handler.ok /\ nextCalls = 0
        ELSE /\ pc # "failed"
             /\ handler.ok
             /\ handler.set = config.Set
             /\ handler.appendTo = config.Append
             /\ handler.delete = config.Delete

C8_Witness == pc = "failed" /\ ~ handler.ok

\* C4: a request whose Content-Type starts with neither recognized media type
\* (or is absent) reaches the downstream handler exactly once, with body,
\* headers, content-length and replay function as they arrived, and the filter
\* writes nothing to the response.
C4_PassThrough ==
    (arrived.ct.media \notin {URLEncodedMedia, MultipartMedia}) =>
        /\ req = NewRequest(arrived)
        /\ rw = <<>>
        /\ nextCalls = (IF pc = "done" THEN 1 ELSE 0)
        /\ pc \in {"start", "failed", "ready", "next", "done"}

C4_Witness ==
    /\ pc = "done"
    /\ arrived.ct = NoContentType
    /\ nextCalls = 1
    /\ Len(wire) > 0

\* C1, as stated: the pass runs delete, then set, then append, in both codecs
\* and whatever order the set and append maps are visited in: a key deleted
\* and set ends with [setValue]; a key set and appended with [setValue,
\* appendValue]; a key deleted and appended, and not set, with [appendValue].
C1_Ordering ==
    Transformed =>
        \A k \in KeysInPlay :
            /\ (k \in DeleteKeys /\ k \in SetKeys) => Out(k) = <<handler.set[k]>>
            /\ (k \in SetKeys /\ k \in AppendKeys)
                   => Out(k) = <<handler.set[k], handler.appendTo[k]>>
            /\ (k \in DeleteKeys /\ k \in AppendKeys /\ k \notin SetKeys)
                   => Out(k) = <<handler.appendTo[k]>>

\* C1, amended: as C1, the first case being a key deleted and set and not
\* appended.
C1_OrderingAmended ==
    Transformed =>
        \A k \in KeysInPlay :
            /\ (k \in DeleteKeys /\ k \in SetKeys /\ k \notin AppendKeys)
                   => Out(k) = <<handler.set[k]>>
            /\ (k \in SetKeys /\ k \in AppendKeys)
                   => Out(k) = <<handler.set[k], handler.appendTo[k]>>
            /\ (k \in DeleteKeys /\ k \in AppendKeys /\ k \notin SetKeys)
                   => Out(k) = <<handler.appendTo[k]>>

\* A multipart body was rebuilt with "a" deleted, set and appended and "b" set
\* and appended, the body having held "a" twice.
C1_Witness ==
    /\ Transformed
    /\ ArrivedMultipart
    /\ KeyA \in DeleteKeys /\ KeyA \in SetKeys /\ KeyA \in AppendKeys
    /\ KeyB \in SetKeys /\ KeyB \in AppendKeys
    /\ Len(MapLoad(InputValues, KeyA)) = 2
    /\ Out(KeyA) = <<SetValue, AppendValue>>

\* Whether the three key sets of the filter are pairwise disjoint.
DisjointOps ==
    /\ DeleteKeys \cap SetKeys = {}
    /\ DeleteKeys \cap AppendKeys = {}
    /\ SetKeys \cap AppendKeys = {}

\* C2: with pairwise disjoint delete, set and append keys, after the pass a
\* deleted key is absent, a set key has exactly the set value, an appended key
\* has its prior values in order followed by the appended value, and any other
\* key keeps its values in their order.
C2_DisjointOps ==
    (Transformed /\ DisjointOps) =>
        \A k \in KeysInPlay :
            /\ k \in DeleteKeys => k \notin DOMAIN DownstreamValues
            /\ k \in SetKeys => Out(k) = <<handler.set[k]>>
            /\ k \in AppendKeys
                   => Out(k) = Append(MapLoad(InputValues, k), handler.appendTo[k])
            /\ k \notin (DeleteKeys \cup SetKeys \cup AppendKeys)
                   => /\ (k \in DOMAIN DownstreamValues) = (k \in DOMAIN InputValues)
                      /\ Out(k) = MapLoad(InputValues, k)

\* A URL-encoded body a=1&a=%26 went through a filter that appends to "a" and
\* deletes "b".
C2_Witness ==
    /\ Transformed
    /\ ArrivedURLEncoded
    /\ DisjointOps
    /\ KeyA \in AppendKeys
    /\ KeyB \in DeleteKeys
    /\ MapLoad(InputValues, KeyA) = << <<49>>, <<38>> >>
    /\ Out(KeyA) = << <<49>>, <<38>>, AppendValue >>

\* The decoded keys of a query string's pairs, in the order they appear.
RECURSIVE PairKeys(_)
PairKeys(query) ==
    IF query = <<>> THEN <<>>
    ELSE <<QueryUnescape(CutBefore(CutBefore(query, 38), 61)).val>>
         \o PairKeys(CutAfter(query, 38))

\* The values the mutation pass is to leave for k: the set value, or the
\* original values that survive, then the appended value.
PassValues(k) ==
    (IF k \in SetKeys THEN <<handler.set[k]>>
     ELSE IF k \in DeleteKeys THEN <<>>
     ELSE MapLoad(InputValues, k))
    \o (IF k \in AppendKeys THEN <<handler.appendTo[k]>> ELSE <<>>)

C3_FilesPreserved ==
    (Transformed /\ ArrivedMultipart) =>
        /\ ~ ReadForm(ForwardedBody, req.ct.boundary).err
        /\ ReadForm(ForwardedBody, req.ct.boundary).File
               = ReadForm(wire, arrived.ct.boundary).File
        /\ req.MultipartForm.File = ReadForm(wire, arrived.ct.boundary).File

\* A body with the text field "a" and two files under the field "a" was
\* rebuilt by a filter that sets and appends "a".
C3_Witness ==
    /\ Transformed
    /\ ArrivedMultipart
    /\ KeyA \in SetKeys /\ KeyA \in AppendKeys
    /\ KeyA \in DOMAIN InputValues
    /\ Len(MapLoad(ReadForm(wire, arrived.ct.boundary).File, KeyA)) = 2
    /\ Len(MapLoad(ReadForm(ForwardedBody, req.ct.boundary).File, KeyA)) = 2

\* C10: at most one file handle is open at any time, and none is open outside
\* the steps between a file's Open and its Close: every exit of writeFiles,
\* by success or by an error, leaves no handle open.
C10_HandlesClosed ==
    /\ Cardinality(handles) <= 1
    /\ pc \notin {"create", "copy"} => handles = {}

\* writeFiles returned the error of a failed copy, the handle closed.
C10_Witness ==
    /\ pc = "next"
    /\ rw = <<[code |-> 500, msg |-> "copy"]>>
    /\ handles = {}
    /\ \E k \in DOMAIN ReadForm(wire, arrived.ct.boundary).File :
           Len(ReadForm(wire, arrived.ct.boundary).File[k]) = 2

\* The whole of the forwarded body: what downstream has read of req.Body and
\* what is left to read.
NewBody == bodyGot.got \o ForwardedBody

IsPrefix(s, t) == Len(s) <= Len(t) /\ SubSeq(t, 1, Len(s)) = s

\* C5: after a transformation the content-length is the length of the new
\* body, a multipart Content-Type names the boundary the new body uses, and
\* every reader GetBody returns, however reads of it, of other such readers
\* and of the body interleave, yields the new body's bytes from the start.
C5_SelfConsistent ==
    Transformed =>
        /\ Len(NewBody) = req.ContentLength
        /\ req.Body.src = "body" =>
               /\ req.ct.media = MultipartMedia /\ req.ct.params = "; boundary="
               /\ \A i \in 1..Len(NewBody) :
                      NewBody[i].t \in {"delim", "close"} => NewBody[i].a = req.ct.boundary
               /\ ~ ReadForm(NewBody, req.ct.boundary).err
        /\ \A i \in 1..Len(readers) :
               /\ readers[i].pos = Len(readers[i].got)
               /\ IsPrefix(readers[i].got, NewBody)
               /\ readers[i].eof => readers[i].got = NewBody

\* Downstream read one token of the rebuilt multipart body, then called
\* GetBody twice and read the first reader to its end.
C5_Witness ==
    /\ Transformed
    /\ req.Body.src = "body"
    /\ Len(bodyGot.got) = 1
    /\ Len(readers) = 2
    /\ readers[1].eof
    /\ readers[1].got = NewBody
    /\ readers[2].pos = 0

\* Whether the body that arrived fails to parse.
ParseFails ==
    IF ArrivedURLEncoded THEN ParseQuery(wire).err
    ELSE IF ArrivedMultipart THEN ParseMultipartForm(arrived.ct, wire).err
    ELSE FALSE

\* The message of the parser's error.
ParseMessage ==
    IF ArrivedURLEncoded THEN "invalid URL escape"
    ELSE ParseMultipartForm(arrived.ct, wire).msg

FieldsMutated ==
    \/ /\ req.MultipartForm.present
       /\ req.MultipartForm.Value # ReadForm(wire, arrived.ct.boundary).Value
    \/ /\ ArrivedURLEncoded
       /\ req.PostForm # ParseQuery(wire).vals

\* C7: a transformation is all or nothing: the request downstream gets either
\* went through the whole pass and carries the body rebuilt from the mutated
\* fields, or an error (400 or 500) was reported and the request's fields and
\* body are unmutated.
C7_AllOrNothing ==
    (pc = "done" /\ (ArrivedURLEncoded \/ ArrivedMultipart)) =>
        \/ /\ rw = <<>>
           /\ Transformed
           /\ mutated
           /\ DownstreamValues = (IF ArrivedURLEncoded THEN req.PostForm
                                  ELSE req.MultipartForm.Value)
        \/ /\ Len(rw) = 1
           /\ rw[1].code \in {400, 500}
           /\ req.Body.src = "wire"
           /\ req.GetBody = "nil"
           /\ ~ FieldsMutated

====
